---------------------------- MODULE Spec2Model ----------------------------
(***************************************************************************)
(* Model of src/main.py: the quota ledger and keyword log kept in the      *)
(* object store, the four metered search functions, and the script's       *)
(* request-handling block that composes them.                              *)
(*                                                                         *)
(* In the request flow records are counted, not stored: a page of the     *)
(* platform is the number of ids it carries and whether it carries a       *)
(* continuation token; the records themselves, with their views, dates and *)
(* durations, are followed in `job`.  Store time is a tick counter; a day  *)
(* is TicksPerDay ticks; the instants of records are in seconds.           *)
(***************************************************************************)
EXTENDS Integers, Sequences, FiniteSets, TLC

(* ------------------------------ bounds --------------------------------- *)
NumSessions == 2
TicksPerDay == 2
LastTick == 4
MaxCalls == 2
MaxCredits == 3
MaxLog == 2
GradeSpan == 60
MaxItems == 2
MaxApplied == 3

(* ------------------------- program constants --------------------------- *)
PageMax == 50
FetchMax == 5000
FetchDefault == 100
SearchCost == 100
LookupCost == 1
HourSecs == 3600
MinuteSecs == 60
DaySecs == 86400
DayHours == 24

Sessions == 1 .. NumSessions

Min(a, b) == IF a <= b THEN a ELSE b
Max(a, b) == IF a >= b THEN a ELSE b

RECURSIVE SumSeq(_)
SumSeq(s) == IF s = <<>> THEN 0 ELSE Head(s) + SumSeq(Tail(s))

(* ------------------------------- state --------------------------------- *)
VARIABLES
    supabase,      \* TRUE iff a store client is configured (not None)
    store_up,      \* TRUE iff a download/upload issued now succeeds
    api_key,       \* TRUE iff a platform credential is configured
    now,           \* the clock, in ticks
    quota_store,   \* blob yts_quota_usage.json: day -> units
    log_store,     \* blob yts_keyword_log.json: sequence of [ts, q]
    pc,            \* per session: position in the script
    mode,          \* per session: mode_triggered ("none": no request)
    query,         \* per session: argument of append_keyword_log
    units,         \* per session: argument of add_quota_usage
    data,          \* per session: add_quota_usage's loaded map
    entries,       \* per session: append_keyword_log's loaded list
    max_fetch,     \* per session: the clamped fetch ceiling
    fetched,       \* per session: ids fetched so far
    take,          \* per session: maxResults of the last list call
    ch_resp,       \* per session: items of the channel resolution (-1: none yet)
    search_response, \* per session: the current page, [ids, token]
    next_token,    \* per session: TRUE iff the last page had a token
    cost_used,     \* per session: cost_used of the running function
    breakdown,     \* per session: [search, videos, channels] units
    calls,         \* per session: the upstream calls of the run that
                   \* returned, [search, lookup]
    results_tmp,   \* per session: number of accumulated records
    results_df,    \* per session: [present, rows] (present FALSE: None)
    search_mode,   \* per session: st.session_state.search_mode
    outcome,       \* per session: what the last run displayed
    nreq,          \* per session: direct ledger/log calls made (scenarios)
    plan,          \* the scenario: the store and the day at its start, and
                   \* the credits the ledger scenario makes
    recents,       \* the last get_recent_keywords call: [limit, out]
    job,           \* a run's records on their way from the platform's
                   \* items to the filtered rows
    calc           \* the last call of a time/format/grade utility:
                   \* [fn, in, out]

envVars   == <<supabase, store_up, api_key, now>>
storeVars == <<quota_store, log_store>>
callVars  == <<query, units, data, entries>>
fetchVars == <<max_fetch, fetched, take, ch_resp, search_response, next_token, cost_used,
               breakdown, calls, results_tmp>>
uiVars    == <<results_df, search_mode, outcome>>
calcVars  == <<recents, job, calc>>
vars == <<envVars, storeVars, pc, mode, callVars, fetchVars, uiVars,
          nreq, plan, calcVars>>


Set(f, s, v) == [f EXCEPT ![s] = v]

(* ------------------------------ the store ------------------------------ *)
EmptyMap == [k \in {} |-> 0]
EmptyLog == <<>>

Get(d, key, default) == IF key \in DOMAIN d THEN d[key] ELSE default

Put(d, key, v) == [k \in DOMAIN d \cup {key} |-> IF k = key THEN v ELSE d[k]]

\* A load that hands out the stored value whatever happens.
_load_json_no_default(blob, default) == blob

\* _load_json: the default when no client is configured or the download
\* (or the decoding) raises, the stored value otherwise.
_load_json(blob, default) ==
    IF ~supabase THEN default
    ELSE IF ~store_up THEN default
    ELSE blob

\* _save_json: what the blob holds afterwards.  No client: nothing is sent;
\* a raised upload is swallowed with a warning.
_save_json(blob, value) ==
    IF ~supabase THEN blob
    ELSE IF ~store_up THEN blob
    ELSE value

quota_today_key == now \div TicksPerDay

get_today_quota_total ==
    Get(_load_json(quota_store, EmptyMap), quota_today_key, 0)

\* The persisted entry of a day, read from the blob itself.
Persisted(day) == Get(quota_store, day, 0)

\* A ledger that records the search calls only.
AddUnits_search_only(d, key, u) ==
    Put(d, key, Get(d, key, 0) + SearchCost * (u \div SearchCost))

\* A ledger that overwrites today's entry instead of adding to it.
AddUnits_overwrite(d, key, u) == Put(d, key, u)

\* data[key] = int(data.get(key, 0)) + int(units)
AddUnits(d, key, u) == Put(d, key, Get(d, key, 0) + u)

\* A guard that lets a credit of zero through.
NoUsage_negative_only(u) == u < 0

\* if units <= 0: return
NoUsage(u) == u <= 0

\* str.strip over the query strings of the model.
Strip(q) == CASE q = " " -> ""
              [] q = " news " -> "news"
              [] OTHER -> q

\* The calls made so far, over all sessions.
Calls == SumSeq(nreq)

\* entries.append({"ts": now, "q": q})
AppendEntry(es, q) == Append(es, [ts |-> now, q |-> q])

\* Where a call of add_quota_usage or append_keyword_log returns to.
AfterAppend(s) == IF mode[s] = "none" THEN "idle" ELSE "call"
AfterQuota(s) == IF mode[s] = "none" THEN "idle" ELSE "render"

\* add_quota_usage, up to and including _load_quota_map.
add_quota_usage_load(s) ==
    /\ pc[s] = "quota"
    /\ IF NoUsage(units[s])
       THEN /\ pc' = Set(pc, s, AfterQuota(s))
            /\ UNCHANGED data
       ELSE /\ data' = Set(data, s, _load_json(quota_store, EmptyMap))
            /\ pc' = Set(pc, s, "quota_save")
    /\ UNCHANGED <<envVars, storeVars, mode, query, units, entries,
                   fetchVars, uiVars, nreq, plan, calcVars>>

\* add_quota_usage, from quota_today_key to _save_quota_map.
add_quota_usage_save(s) ==
    /\ pc[s] = "quota_save"
    /\ data' = Set(data, s, AddUnits(data[s], quota_today_key, units[s]))
    /\ quota_store' = _save_json(quota_store, data'[s])
    /\ pc' = Set(pc, s, AfterQuota(s))
    /\ UNCHANGED <<envVars, log_store, mode, query, units, entries,
                   fetchVars, uiVars, nreq, plan, calcVars>>

\* append_keyword_log, up to and including _load_keyword_log.
append_keyword_log_load(s) ==
    /\ pc[s] = "kwlog"
    /\ IF Strip(query[s]) = ""
       THEN /\ pc' = Set(pc, s, AfterAppend(s))
            /\ UNCHANGED entries
       ELSE /\ entries' = Set(entries, s, _load_json(log_store, EmptyLog))
            /\ pc' = Set(pc, s, "kwlog_save")
    /\ UNCHANGED <<envVars, storeVars, mode, query, units, data,
                   fetchVars, uiVars, nreq, plan, calcVars>>

\* append_keyword_log, from the timestamp to _save_keyword_log.
append_keyword_log_save(s) ==
    /\ pc[s] = "kwlog_save"
    /\ entries' = Set(entries, s, AppendEntry(entries[s], Strip(query[s])))
    /\ log_store' = _save_json(log_store, entries'[s])
    /\ pc' = Set(pc, s, AfterAppend(s))
    /\ UNCHANGED <<envVars, quota_store, mode, query, units, data,
                   fetchVars, uiVars, nreq, plan, calcVars>>

(* --------------------------- the environment --------------------------- *)
\* The clock advances.
Tick ==
    /\ now < LastTick
    /\ now' = now + 1
    /\ UNCHANGED <<supabase, store_up, api_key, storeVars, pc, mode,
                   callVars, fetchVars, uiVars, nreq, plan, calcVars>>

\* The store backend goes down or comes back.
StoreFlip ==
    /\ supabase
    /\ store_up' = ~store_up
    /\ UNCHANGED <<supabase, api_key, now, storeVars, pc, mode,
                   callVars, fetchVars, uiVars, nreq, plan, calcVars>>


(* ------------------------- the search functions ------------------------ *)
\* What the sidebar's number_input can hand over as max_fetch.
FetchCeilings == {1, PageMax, PageMax + 1}
ChartCeilings == FetchCeilings \cup {FetchMax}

\* max(1, min(int(max_fetch or 100), 5000))
ClampFetch(m) == Max(1, Min(IF m = 0 THEN FetchDefault ELSE m, FetchMax))

\* A search call that always asks for a whole page.
Take_whole_page(mf, f) == PageMax

\* take = min(50, max_fetch - fetched)
Take(mf, f) == Min(PageMax, mf - f)

\* A page ceiling twice as high.
ChartTake_doubled(m) == Max(1, Min(m, 2 * PageMax))

\* A chart call that forgets the page ceiling.
ChartTake_unclamped(m) == Max(1, m)

\* take = max(1, min(max_results, 50))
ChartTake(m) == Max(1, Min(m, PageMax))

\* A loop that goes on when the ceiling is exactly reached.
LoopGuard_off_by_one(f, mf) == f <= mf

\* The while condition of the paging loop.
LoopGuard(f, mf) == f < mf

\* A loop that goes on without a continuation token.
NoToken_ignored(tok) == FALSE

\* if not next_token: break
NoToken(tok) == ~tok

\* A resolution that never notices an empty answer.
NoItems_never(n) == FALSE

\* if not items: return [], cost_used, breakdown
NoItems(n) == n = 0

\* A run that goes to its search function without logging the query.
RunStart_unlogged(m) == "call"

\* Every branch of the request block calls append_keyword_log first.
RunStart(m) == "kwlog"

\* The numbers of ids a page asked for with maxResults = t is modelled to
\* carry: none, all but one, all.
PageSizes(t) == {0, t - 1, t} \cap (0 .. t)

NoDf == [present |-> FALSE, rows |-> 0]
Df(n) == [present |-> TRUE, rows |-> n]
NoPage == [ids |-> 0, token |-> FALSE]
NoBreakdown == [search |-> 0, videos |-> 0, channels |-> 0]

Modes == {"general", "trend", "channel_videos", "channel_list"}
Queries == {" ", " news "}

\* A script run begins with a button pressed: the locals are fresh.  A
\* behaviour of Spec is one run of the script, from the button to the end
\* of the request block ("done").
Fresh(s, m, q, mf) ==
    /\ mode' = Set(mode, s, m)
    /\ query' = Set(query, s, q)
    /\ max_fetch' = Set(max_fetch, s, mf)
    /\ fetched' = Set(fetched, s, 0)
    /\ take' = Set(take, s, 0)
    /\ ch_resp' = Set(ch_resp, s, -1)
    /\ search_response' = Set(search_response, s, NoPage)
    /\ next_token' = Set(next_token, s, FALSE)
    /\ cost_used' = Set(cost_used, s, 0)
    /\ breakdown' = Set(breakdown, s, NoBreakdown)
    /\ calls' = Set(calls, s, [search |-> 0, lookup |-> 0])
    /\ results_tmp' = Set(results_tmp, s, 0)
    /\ units' = Set(units, s, 0)

\* The general-search branch up to the call of append_keyword_log; a blank
\* query only warns.
StartGeneral(s) ==
    /\ pc[s] = "idle"
    /\ \E q \in Queries, mf \in FetchCeilings :
         IF Strip(q) = ""
         THEN /\ outcome' = Set(outcome, s, "warning")
              /\ pc' = Set(pc, s, "done")
              /\ UNCHANGED <<mode, callVars, fetchVars, results_df,
                             search_mode>>
         ELSE /\ Fresh(s, "general", Strip(q), mf)
              /\ pc' = Set(pc, s, RunStart("general"))
              /\ UNCHANGED <<data, entries, uiVars>>
    /\ UNCHANGED <<envVars, storeVars, nreq, plan, calcVars>>

\* The trend branch up to the call of append_keyword_log.
StartTrend(s) ==
    /\ pc[s] = "idle"
    /\ \E mf \in ChartCeilings : Fresh(s, "trend", "[trend]KR", mf)
    /\ pc' = Set(pc, s, RunStart("trend"))
    /\ UNCHANGED <<envVars, storeVars, data, entries, uiVars, nreq, plan, calcVars>>

\* The channel-videos branch up to the call of append_keyword_log.
StartChannelVideos(s) ==
    /\ pc[s] = "idle"
    /\ \E mf \in FetchCeilings :
         Fresh(s, "channel_videos", "[channel_videos]name", mf)
    /\ pc' = Set(pc, s, RunStart("channel_videos"))
    /\ UNCHANGED <<envVars, storeVars, data, entries, uiVars, nreq, plan, calcVars>>

\* The channel-list branch up to the call of append_keyword_log.
StartChannelList(s) ==
    /\ pc[s] = "idle"
    /\ \E mf \in ChartCeilings : Fresh(s, "channel_list", "[channel]kw", mf)
    /\ pc' = Set(pc, s, RunStart("channel_list"))
    /\ UNCHANGED <<envVars, storeVars, data, entries, uiVars, nreq, plan, calcVars>>

\* An error that leaves the session's table on display.
ErrorResults_kept(df) == df

\* st.session_state.results_df = None
ErrorResults(df) == NoDf

\* An exception leaves the search function and reaches the script's
\* except clause: the message is shown and the session's results cleared.
Raise(s) ==
    /\ pc' = Set(pc, s, "done")
    /\ results_df' = Set(results_df, s, ErrorResults(results_df[s]))
    /\ outcome' = Set(outcome, s, "error")
    /\ UNCHANGED <<envVars, storeVars, mode, callVars, fetchVars,
                   search_mode, nreq, plan, calcVars>>

\* return results, cost_used, breakdown; the script then calls
\* add_quota_usage(cost_used).
Return(s, cost, bd, n) ==
    /\ cost_used' = Set(cost_used, s, cost)
    /\ breakdown' = Set(breakdown, s, bd)
    /\ results_tmp' = Set(results_tmp, s, n)
    /\ units' = Set(units, s, cost)
    /\ pc' = Set(pc, s, "quota")


FirstCall(m) == CASE m = "general" -> "search"
                  [] m = "channel_videos" -> "resolve"
                  [] m = "trend" -> "chart"
                  [] OTHER -> "chsearch"

\* The script calls the search function of the mode; get_youtube_client
\* raises when no credential is configured.
get_youtube_client(s) ==
    /\ pc[s] = "call"
    /\ IF ~api_key
       THEN Raise(s)
       ELSE /\ pc' = Set(pc, s, FirstCall(mode[s]))
            /\ max_fetch' = Set(max_fetch, s,
                 IF mode[s] \in {"general", "channel_videos"}
                 THEN ClampFetch(max_fetch[s]) ELSE max_fetch[s])
            /\ UNCHANGED <<envVars, storeVars, mode, callVars, fetched, take,
                           ch_resp, search_response, next_token, cost_used,
                           breakdown, calls, results_tmp, uiVars, nreq, plan,
                           calcVars>>

\* search_videos_in_channel_by_name: the search call that resolves the
\* channel name (maxResults = 1).
resolve_channel(s) ==
    /\ pc[s] = "resolve"
    /\ \E ok \in BOOLEAN :
         IF ~ok
         THEN Raise(s)
         ELSE \E n \in 0 .. 1 :
              /\ ch_resp' = Set(ch_resp, s, n)
              /\ take' = Set(take, s, 1)
              /\ calls' = Set(calls, s, [calls[s] EXCEPT !.search = @ + 1])
              /\ IF NoItems(n)
                 THEN /\ Return(s, cost_used[s] + SearchCost,
                           [breakdown[s] EXCEPT !.search = @ + SearchCost], 0)
                 ELSE /\ cost_used' = Set(cost_used, s, cost_used[s] + SearchCost)
                      /\ breakdown' = Set(breakdown, s,
                           [breakdown[s] EXCEPT !.search = @ + SearchCost])
                      /\ pc' = Set(pc, s, "search")
                      /\ UNCHANGED <<units, results_tmp>>
              /\ UNCHANGED <<envVars, storeVars, mode, query, data, entries,
                             max_fetch, fetched, search_response, next_token,
                             uiVars, nreq, plan, calcVars>>

\* The paging loop's search call (search_videos and the channel-scoped
\* loop): one page of ids is asked for.
search_list(s) ==
    /\ pc[s] = "search"
    /\ LoopGuard(fetched[s], max_fetch[s])
    /\ \E ok \in BOOLEAN :
         IF ~ok
         THEN Raise(s)
         ELSE LET t == Take(max_fetch[s], fetched[s]) IN
              \E n \in PageSizes(t), tok \in BOOLEAN :
              /\ take' = Set(take, s, t)
              /\ calls' = Set(calls, s, [calls[s] EXCEPT !.search = @ + 1])
              /\ search_response' = Set(search_response, s,
                                        [ids |-> n, token |-> tok])
              /\ IF n = 0
                 THEN Return(s, cost_used[s] + SearchCost,
                        [breakdown[s] EXCEPT !.search = @ + SearchCost],
                        results_tmp[s])
                 ELSE /\ cost_used' = Set(cost_used, s, cost_used[s] + SearchCost)
                      /\ breakdown' = Set(breakdown, s,
                           [breakdown[s] EXCEPT !.search = @ + SearchCost])
                      /\ pc' = Set(pc, s, "videos")
                      /\ UNCHANGED <<units, results_tmp>>
              /\ UNCHANGED <<envVars, storeVars, mode, query, data, entries,
                             max_fetch, fetched, ch_resp, next_token,
                             uiVars, nreq, plan, calcVars>>

\* The paging loop's detail lookup for the page's ids, the stage-1 filter,
\* and the loop's exits.
videos_list(s) ==
    /\ pc[s] = "videos"
    /\ \E ok \in BOOLEAN :
         IF ~ok
         THEN Raise(s)
         ELSE LET n == search_response[s].ids
                  tok == search_response[s].token
                  cost == cost_used[s] + LookupCost
                  bd == [breakdown[s] EXCEPT !.videos = @ + LookupCost]
              IN
              \E kept \in {0, n} :
              /\ fetched' = Set(fetched, s, fetched[s] + n)
              /\ next_token' = Set(next_token, s, tok)
              /\ calls' = Set(calls, s, [calls[s] EXCEPT !.lookup = @ + 1])
              /\ IF ~NoToken(tok) /\ LoopGuard(fetched[s] + n, max_fetch[s])
                 THEN /\ cost_used' = Set(cost_used, s, cost)
                      /\ breakdown' = Set(breakdown, s, bd)
                      /\ results_tmp' = Set(results_tmp, s, results_tmp[s] + kept)
                      /\ pc' = Set(pc, s, "search")
                      /\ UNCHANGED units
                 ELSE Return(s, cost, bd, results_tmp[s] + kept)
              /\ UNCHANGED <<envVars, storeVars, mode, query, data, entries,
                             max_fetch, take, ch_resp, search_response,
                             uiVars, nreq, plan, calcVars>>

\* search_trending_videos: the one chart call.
search_trending_videos(s) ==
    /\ pc[s] = "chart"
    /\ \E ok \in BOOLEAN :
         IF ~ok
         THEN Raise(s)
         ELSE LET t == ChartTake(max_fetch[s]) IN
              \E n \in PageSizes(t) :
              /\ take' = Set(take, s, t)
              /\ calls' = Set(calls, s, [calls[s] EXCEPT !.lookup = @ + 1])
              /\ Return(s, LookupCost,
                        [breakdown[s] EXCEPT !.videos = LookupCost], n)
              /\ UNCHANGED <<envVars, storeVars, mode, query, data, entries,
                             max_fetch, fetched, ch_resp, search_response,
                             next_token, uiVars, nreq, plan, calcVars>>

\* search_channels_by_keyword: the channel search call.
channel_search(s) ==
    /\ pc[s] = "chsearch"
    /\ \E ok \in BOOLEAN :
         IF ~ok
         THEN Raise(s)
         ELSE LET t == ChartTake(max_fetch[s]) IN
              \E n \in PageSizes(t) :
              /\ take' = Set(take, s, t)
              /\ calls' = Set(calls, s, [calls[s] EXCEPT !.search = @ + 1])
              /\ search_response' = Set(search_response, s,
                                        [ids |-> n, token |-> FALSE])
              /\ IF n = 0
                 THEN Return(s, SearchCost,
                        [NoBreakdown EXCEPT !.search = SearchCost], 0)
                 ELSE /\ cost_used' = Set(cost_used, s, SearchCost)
                      /\ pc' = Set(pc, s, "channels")
                      /\ UNCHANGED <<units, breakdown, results_tmp>>
              /\ UNCHANGED <<envVars, storeVars, mode, query, data, entries,
                             max_fetch, fetched, ch_resp, next_token,
                             uiVars, nreq, plan, calcVars>>

\* search_channels_by_keyword: the channel detail lookup for the ids found.
channels_list(s) ==
    /\ pc[s] = "channels"
    /\ \E ok \in BOOLEAN :
         IF ~ok
         THEN Raise(s)
         ELSE \E rows \in {0, search_response[s].ids} :
              /\ calls' = Set(calls, s, [calls[s] EXCEPT !.lookup = @ + 1])
              /\ Return(s, cost_used[s] + LookupCost,
                        [search |-> SearchCost, videos |-> 0,
                         channels |-> LookupCost], rows)
              /\ UNCHANGED <<envVars, storeVars, mode, query, data, entries,
                             max_fetch, fetched, take, ch_resp,
                             search_response, next_token, uiVars, nreq, plan, calcVars>>

\* After add_quota_usage: the rows are built, the stage-2 filter applied,
\* the session's results and mode set, and the run ends.
render(s) ==
    /\ pc[s] = "render"
    /\ IF results_tmp[s] = 0
       THEN /\ results_df' = Set(results_df, s, NoDf)
            /\ outcome' = Set(outcome, s, "zero")
       ELSE /\ \E rows \in (IF mode[s] = "channel_list"
                            THEN {results_tmp[s]}
                            ELSE {0, results_tmp[s]}) :
                 results_df' = Set(results_df, s, Df(rows))
            /\ outcome' = Set(outcome, s, "success")
    /\ search_mode' = Set(search_mode, s, mode[s])
    /\ pc' = Set(pc, s, "done")
    /\ UNCHANGED <<envVars, storeVars, mode, callVars, fetchVars, nreq, plan, calcVars>>


(* ------------------------------- scenarios ----------------------------- *)
\* Direct calls of the ledger and of the log, with arguments the request
\* flow never passes (units <= 0, a blank query).
UnitChoices == {-5, 0, 1, 100}

CallAddUsage(s) ==
    /\ pc[s] = "idle"
    /\ mode[s] = "none"
    /\ Calls < MaxCalls
    /\ \E u \in UnitChoices : units' = Set(units, s, u)
    /\ nreq' = Set(nreq, s, nreq[s] + 1)
    /\ pc' = Set(pc, s, "quota")
    /\ UNCHANGED <<envVars, storeVars, mode, query, data, entries,
                   fetchVars, uiVars, plan, calcVars>>

CallAppend(s) ==
    /\ pc[s] = "idle"
    /\ mode[s] = "none"
    /\ Calls < MaxCalls
    /\ \E q \in Queries : query' = Set(query, s, q)
    /\ nreq' = Set(nreq, s, nreq[s] + 1)
    /\ pc' = Set(pc, s, "kwlog")
    /\ UNCHANGED <<envVars, storeVars, mode, units, data, entries,
                   fetchVars, uiVars, plan, calcVars>>

\* The ledger scenario: session 1 credits plan.credits one at a time.
CreditCosts == {LookupCost, SearchCost, SearchCost + 2 * LookupCost}

RECURSIVE SeqsUpTo(_, _)
SeqsUpTo(S, n) ==
    IF n = 0 THEN {<<>>}
    ELSE LET shorter == SeqsUpTo(S, n - 1) IN
         shorter \cup {Append(q, x) : q \in shorter, x \in S}

CreditNext ==
    /\ pc[1] = "idle"
    /\ nreq[1] < Len(plan.credits)
    /\ units' = Set(units, 1, plan.credits[nreq[1] + 1])
    /\ nreq' = Set(nreq, 1, nreq[1] + 1)
    /\ pc' = Set(pc, 1, "quota")
    /\ UNCHANGED <<envVars, storeVars, mode, query, data, entries,
                   fetchVars, uiVars, plan, calcVars>>

(* --------------------------- keyword log reads ------------------------- *)
\* A stored entry's "ts" is the tick its ISO text stands for; two values
\* stand for a "ts" that is missing or empty and for a text that
\* datetime.fromisoformat rejects.
NoTs == -1
BadTs == -2

\* datetime.fromisoformat(ts) returns (it raises otherwise).
fromisoformat_ok(ts) == ts >= 0

\* The loop of get_recent_keywords: entries without "ts" or "q" and entries
\* whose "ts" does not parse are passed over.
RECURSIVE Collect(_)
Collect(es) ==
    IF es = <<>> THEN <<>>
    ELSE LET item == Head(es) IN
         IF item.ts = NoTs \/ item.q = "" THEN Collect(Tail(es))
         ELSE IF ~fromisoformat_ok(item.ts) THEN Collect(Tail(es))
         ELSE <<[dt |-> item.ts, q |-> item.q]>> \o Collect(Tail(es))

\* out.sort(key=dt, reverse=True): descending and stable.
InsertDesc(x, sorted) ==
    LET k == Cardinality({i \in 1 .. Len(sorted) : sorted[i].dt >= x.dt})
    IN SubSeq(sorted, 1, k) \o <<x>> \o SubSeq(sorted, k + 1, Len(sorted))

RECURSIVE SortDesc(_)
SortDesc(out) ==
    IF out = <<>> THEN <<>>
    ELSE InsertDesc(out[Len(out)], SortDesc(SubSeq(out, 1, Len(out) - 1)))

\* out[:limit], limit >= 0
FirstN(out, limit) == SubSeq(out, 1, Min(limit, Len(out)))

NoRecents == [limit |-> 0, out |-> <<>>]

\* The sidebar asks for 7 keywords; the default is 30.
RecentLimits == {1, 2, 7, 30}

get_recent_keywords(limit) ==
    /\ recents' = [limit |-> limit,
                   out |-> FirstN(SortDesc(Collect(_load_json(log_store, EmptyLog))),
                                  limit)]
    /\ UNCHANGED <<envVars, storeVars, pc, mode, callVars, fetchVars, uiVars,
                   nreq, plan, job, calc>>

Sidebar == \E limit \in RecentLimits : get_recent_keywords(limit)

\* What the store may hold: entries written by append_keyword_log at some
\* tick, and malformed ones.
StoredEntries == [ts : {NoTs, BadTs, 0, LastTick - 2, LastTick - 1}, q : {"", "a", "b"}]

(* ------------------------ time, format and grade ------------------------ *)
\* A text is the sequence of its characters.
Digits == <<"0", "1", "2", "3", "4", "5", "6", "7", "8", "9">>

\* ch.isdigit()
isdigit(ch) == \E i \in 1 .. Len(Digits) : Digits[i] = ch

DigitVal(ch) == (CHOOSE i \in 1 .. Len(Digits) : Digits[i] = ch) - 1

\* int(num) for a text of digits
RECURSIVE int(_)
int(num) ==
    IF num = <<>> THEN 0
    ELSE 10 * int(SubSeq(num, 1, Len(num) - 1)) + DigitVal(num[Len(num)])

\* f"{n}" for n >= 0
RECURSIVE Str(_)
Str(n) ==
    IF n < 10 THEN <<Digits[n + 1]>>
    ELSE Str(n \div 10) \o <<Digits[(n % 10) + 1]>>

\* A two-digit field that is not padded.
Str02_unpadded(n) == Str(n)

\* f"{n:02d}" for n >= 0
Str02(n) == IF n < 10 THEN <<"0">> \o Str(n) ELSE Str(n)

\* iso_dur.startswith("PT")
StartsWithPT(iso_dur) ==
    Len(iso_dur) >= 2 /\ iso_dur[1] = "P" /\ iso_dur[2] = "T"

\* The character loop of parse_duration_iso8601 over iso_dur[2:]: digits
\* gather in num; H, M and S take the gathered number when there is one;
\* any other character is passed over and num is kept.
RECURSIVE ParseLoop(_, _)
ParseLoop(chars, st) ==
    IF chars = <<>> THEN st
    ELSE LET ch == Head(chars) IN
         ParseLoop(Tail(chars),
            IF isdigit(ch) THEN [st EXCEPT !.num = Append(@, ch)]
            ELSE IF ch = "H" /\ st.num # <<>>
                 THEN [st EXCEPT !.h = int(st.num), !.num = <<>>]
            ELSE IF ch = "M" /\ st.num # <<>>
                 THEN [st EXCEPT !.m = int(st.num), !.num = <<>>]
            ELSE IF ch = "S" /\ st.num # <<>>
                 THEN [st EXCEPT !.s = int(st.num), !.num = <<>>]
            ELSE st)

parse_duration_iso8601(iso_dur) ==
    IF iso_dur = <<>> \/ ~StartsWithPT(iso_dur) THEN 0
    ELSE LET st == ParseLoop(SubSeq(iso_dur, 3, Len(iso_dur)),
                             [h |-> 0, m |-> 0, s |-> 0, num |-> <<>>])
         IN st.h * HourSecs + st.m * MinuteSecs + st.s

format_duration_hms(seconds) ==
    IF seconds <= 0 THEN <<"0", ":", "0", "0">>
    ELSE LET h == seconds \div HourSecs
             m == (seconds % HourSecs) \div MinuteSecs
             s == seconds % MinuteSecs
         IN IF h > 0
            THEN Str(h) \o <<":">> \o Str02(m) \o <<":">> \o Str02(s)
            ELSE Str(m) \o <<":">> \o Str02(s)

\* An elapsed time that does not look at the sign of the difference.
human_elapsed_unguarded(later, earlier) ==
    [days |-> (later - earlier) \div DaySecs,
     hours |-> ((later - earlier) % DaySecs) \div HourSecs]

\* later - earlier as a timedelta: days and seconds, 0 days 0 hours when
\* earlier is the later instant.  Instants are in seconds.
human_elapsed_days_hours(later, earlier) ==
    LET delta == later - earlier IN
    IF delta < 0 THEN [days |-> 0, hours |-> 0]
    ELSE [days |-> delta \div DaySecs,
          hours |-> (delta % DaySecs) \div HourSecs]

\* total_hours = max(1, d*24 + h)
total_hours(dh) == Max(1, dh.days * DayHours + dh.hours)

\* int(round(a / b)) for a >= 0, b >= 1: the nearest integer, the even one
\* of two that are equally near.
RoundDiv(a, b) ==
    LET q == a \div b
        r == a % b
    IN IF 2 * r < b THEN q
       ELSE IF 2 * r > b THEN q + 1
       ELSE IF q % 2 = 0 THEN q ELSE q + 1

clicks_per_hour(views, dh) == RoundDiv(views, total_hours(dh))

\* A grade table read from its lowest bound up.
calc_grade_bottom_up(clicks) ==
    IF clicks >= 50 THEN "G"
    ELSE IF clicks >= 100 THEN "F"
    ELSE IF clicks >= 5000 THEN "A"
    ELSE "H"

calc_grade(clicks) ==
    LET v == clicks IN
    IF v >= 5000 THEN "A"
    ELSE IF v >= 2000 THEN "B"
    ELSE IF v >= 1000 THEN "C"
    ELSE IF v >= 500 THEN "D"
    ELSE IF v >= 300 THEN "E"
    ELSE IF v >= 100 THEN "F"
    ELSE IF v >= 50 THEN "G"
    ELSE "H"

(* ------------------------- records and filters ------------------------- *)
\* search_dt = datetime.now(KST), in seconds.
FetchInstant == 10 * DaySecs

\* The labels of the duration select box: all, shorts, long, 1~20 min,
\* 20~40 min, 40~60 min, 60 min and more.
DurationLabels == {"all", "shorts", "long", "1-20", "20-40", "40-60", "60+"}

duration_filter_ok(seconds, label) ==
    CASE label = "all" -> TRUE
      [] label = "shorts" -> seconds < 60
      [] label = "long" -> seconds >= 60
      [] label = "1-20" -> 60 <= seconds /\ seconds < 20 * 60
      [] label = "20-40" -> 20 * 60 <= seconds /\ seconds < 40 * 60
      [] label = "40-60" -> 40 * 60 <= seconds /\ seconds < 60 * 60
      [] label = "60+" -> seconds >= 60 * 60
      [] OTHER -> TRUE

\* text.replace(",", "").replace(" ", "").replace(man, "0000"), where the
\* one character for ten thousand is written "man" here.
RECURSIVE Cleaned(_)
Cleaned(text) ==
    IF text = <<>> THEN <<>>
    ELSE LET ch == Head(text) IN
         (IF ch \in {",", " "} THEN <<>>
          ELSE IF ch = "man" THEN <<"0", "0", "0", "0">>
          ELSE <<ch>>) \o Cleaned(Tail(text))

\* int(digits), 0 when int raises
parse_min_views(text) ==
    LET digits == Cleaned(text) IN
    IF digits # <<>> /\ \A i \in 1 .. Len(digits) : isdigit(digits[i])
    THEN int(digits) ELSE 0

\* The upload-period select box: a number of days, or no limit.
NoLimit == 0

\* A filter that keeps only rows above the lowest view count it sees.
apply_client_filters_above_lowest(df, upload_period, min_views_label, at) ==
    SelectSeq(df, LAMBDA row :
        /\ row.views >= parse_min_views(min_views_label)
        /\ \E i \in 1 .. Len(df) : df[i].views < row.views)

\* apply_client_filters on the rows of a video table, evaluated at the
\* instant `at` (datetime.now).
apply_client_filters(df, upload_period, min_views_label, at) ==
    LET cutoff == at - upload_period * DaySecs
        recent == IF upload_period # NoLimit
                  THEN SelectSeq(df, LAMBDA row : row.pub >= cutoff)
                  ELSE df
        min_views == parse_min_views(min_views_label)
    IN SelectSeq(recent, LAMBDA row : row.views >= min_views)

\* The filter inside the fetch loops of search_videos and of
\* search_videos_in_channel_by_name; search_trending_videos has none.
Stage1(items, m, min_views, duration_label) ==
    IF m = "trend" THEN items
    ELSE SelectSeq(items, LAMBDA it :
            /\ ~(it.views < min_views)
            /\ duration_filter_ok(parse_duration_iso8601(it.duration),
                                  duration_label))

\* One row of the table, from one fetched record.
Row(r, search_dt) ==
    LET dh == human_elapsed_days_hours(search_dt, r.pub)
        cph == clicks_per_hour(r.views, dh)
    IN [grade |-> calc_grade(cph), views |-> r.views, cph |-> cph,
        length |-> format_duration_hms(parse_duration_iso8601(r.duration)),
        pub |-> r.pub, days |-> dh.days, hours |-> dh.hours]

Rows(raw_results, search_dt) ==
    [i \in 1 .. Len(raw_results) |-> Row(raw_results[i], search_dt)]

\* What the platform may answer with: [views, pub, duration].
Items ==
    {[views |-> 4999, pub |-> FetchInstant - HourSecs,
      duration |-> <<"P", "T", "5", "9", "S">>],
     [views |-> 5000, pub |-> FetchInstant - 2 * DaySecs,
      duration |-> <<"P", "T", "1", "M">>],
     [views |-> 123457, pub |-> FetchInstant - 8 * DaySecs,
      duration |-> <<"P", "T", "1", "H", "2", "M", "3", "S">>],
     [views |-> 10000, pub |-> FetchInstant + 100,
      duration |-> <<"P", "T", "3", "0", "S">>],
     [views |-> 5000, pub |-> FetchInstant - 7 * DaySecs,
      duration |-> <<"P", "T", "2", "0", "M">>]}

UploadPeriods == {NoLimit, 1, 7}
MinViewsLabels == {<<"5", ",", "0", "0", "0">>, <<"1", "0", ",", "0", "0", "0">>}
JobDurationLabels == {"all", "shorts", "long", "1-20"}
JobModes == {"general", "trend", "channel_videos"}

\* A request whose upstream calls have answered with `items`.
Jobs ==
    [pc : {"fetched"}, mode : JobModes, items : SeqsUpTo(Items, MaxItems),
     upload_period : UploadPeriods, min_views_label : MinViewsLabels,
     duration_label : JobDurationLabels, search_dt : {FetchInstant},
     raw_results : {<<>>}, df : {<<>>}, present : {FALSE}, at : {FetchInstant},
     applied : {0}]

\* The search function's loop over the items: the records it returns.
job_fetch ==
    /\ job.pc = "fetched"
    /\ job' = [job EXCEPT
                 !.pc = "returned",
                 !.raw_results = Stage1(job.items, job.mode,
                                        parse_min_views(job.min_views_label),
                                        job.duration_label)]
    /\ UNCHANGED <<envVars, storeVars, pc, mode, callVars, fetchVars, uiVars,
                   nreq, plan, recents, calc>>

\* The request block after add_quota_usage: no table when no record came
\* back, else the rows and the stage-2 filter, at an instant not before the
\* fetch.
job_render ==
    /\ job.pc = "returned"
    /\ IF job.raw_results = <<>>
       THEN job' = [job EXCEPT !.pc = "done", !.present = FALSE, !.df = <<>>]
       ELSE \E at \in {job.search_dt, job.search_dt + 1} :
              job' = [job EXCEPT
                        !.pc = "done", !.present = TRUE, !.at = at,
                        !.applied = 1,
                        !.df = apply_client_filters(
                                  Rows(job.raw_results, job.search_dt),
                                  job.upload_period, job.min_views_label, at)]
    /\ UNCHANGED <<envVars, storeVars, pc, mode, callVars, fetchVars, uiVars,
                   nreq, plan, recents, calc>>

\* The stage-2 filter applied to a table it has filtered, at the same
\* instant or a day later.
job_refilter ==
    /\ job.pc = "done"
    /\ job.present
    /\ job.applied < MaxApplied
    /\ \E at \in {job.at, job.at + DaySecs} :
         job' = [job EXCEPT
                   !.at = at,
                   !.applied = @ + 1,
                   !.df = apply_client_filters(job.df, job.upload_period,
                                               job.min_views_label, at)]
    /\ UNCHANGED <<envVars, storeVars, pc, mode, callVars, fetchVars, uiVars,
                   nreq, plan, recents, calc>>

NoJob == [pc |-> "none"]
NoCalc == [fn |-> "none"]

\* The utilities called on their own, on inputs of every shape; a
\* behaviour is one call.
GradeInputs == (0 - GradeSpan) .. (5000 + GradeSpan)

Call_calc_grade ==
    /\ calc = NoCalc
    /\ \E v \in GradeInputs :
         calc' = [fn |-> "calc_grade", in |-> v, out |-> calc_grade(v)]
    /\ UNCHANGED <<envVars, storeVars, pc, mode, callVars, fetchVars, uiVars,
                   nreq, plan, recents, job>>

Offsets == {0 - 100, 0, 1, HourSecs - 1, HourSecs, DaySecs - 1, DaySecs,
            DaySecs + HourSecs, 3 * DaySecs + 2 * HourSecs + 1}
ViewCounts == {0, 1, 49, 4999, 5000, 123457}

\* The metric of one record, as the request block computes it for a row.
Call_human_elapsed_days_hours ==
    /\ calc = NoCalc
    /\ \E off \in Offsets, views \in ViewCounts :
         LET search_dt == FetchInstant
             pub_kst == FetchInstant - off
             dh == human_elapsed_days_hours(search_dt, pub_kst)
         IN calc' = [fn |-> "human_elapsed_days_hours",
                     in |-> [later |-> search_dt, earlier |-> pub_kst,
                             views |-> views],
                     out |-> [days |-> dh.days, hours |-> dh.hours,
                              total_hours |-> total_hours(dh),
                              cph |-> clicks_per_hour(views, dh)]]
    /\ UNCHANGED <<envVars, storeVars, pc, mode, callVars, fetchVars, uiVars,
                   nreq, plan, recents, job>>

\* The text PT{h}H{m}M{s}S with the components of `keep`.
Render(h, m, s, keep) ==
    <<"P", "T">>
      \o (IF "H" \in keep THEN Str(h) \o <<"H">> ELSE <<>>)
      \o (IF "M" \in keep THEN Str(m) \o <<"M">> ELSE <<>>)
      \o (IF "S" \in keep THEN Str(s) \o <<"S">> ELSE <<>>)

HourChoices == {0, 1, 12}
MinuteChoices == {0, 2, 59, 75}
SecondChoices == {0, 3, 45}
OtherTexts == {<<>>, <<"P">>, <<"T", "1", "H">>, <<"1", "H">>,
               <<"P", "1", "D">>, <<"P", "1", "D", "T", "2", "H">>,
               <<"p", "t", "5", "S">>}
DurationTexts ==
    {Render(h, m, s, keep) : h \in HourChoices, m \in MinuteChoices,
                             s \in SecondChoices, keep \in SUBSET {"H", "M", "S"}}
      \cup OtherTexts

Call_parse_duration_iso8601 ==
    /\ calc = NoCalc
    /\ \E iso_dur \in DurationTexts :
         calc' = [fn |-> "parse_duration_iso8601", in |-> iso_dur,
                  out |-> parse_duration_iso8601(iso_dur)]
    /\ UNCHANGED <<envVars, storeVars, pc, mode, callVars, fetchVars, uiVars,
                   nreq, plan, recents, job>>

SecondsInputs == {parse_duration_iso8601(d) : d \in DurationTexts}
                   \cup {59, 60, 599, 600, HourSecs - 1, HourSecs, 10 * HourSecs}

Call_format_duration_hms ==
    /\ calc = NoCalc
    /\ \E seconds \in SecondsInputs :
         calc' = [fn |-> "format_duration_hms", in |-> seconds,
                  out |-> format_duration_hms(seconds)]
    /\ UNCHANGED <<envVars, storeVars, pc, mode, callVars, fetchVars, uiVars,
                   nreq, plan, recents, job>>


InitCalc ==
    /\ recents = NoRecents
    /\ job = NoJob
    /\ calc = NoCalc

(* ---------------------------- specifications --------------------------- *)
FirstTick == TicksPerDay
FirstDay == FirstTick \div TicksPerDay
PastDay == FirstDay - 1

InitQuota == {EmptyMap, (PastDay :> 300),
              (PastDay :> 300) @@ (FirstDay :> 500)}
InitLog == {EmptyLog, <<[ts |-> 0, q |-> "old"]>>}

\* The scenario starts from the store as it is.
StartPlan(credits) == [quota |-> quota_store, log |-> log_store,
                       day |-> quota_today_key, credits |-> credits]
StartTotal == Get(plan.quota, plan.day, 0)

InitSessions ==
    /\ pc = [s \in Sessions |-> "idle"]
    /\ mode = [s \in Sessions |-> "none"]
    /\ query = [s \in Sessions |-> ""]
    /\ units = [s \in Sessions |-> 0]
    /\ data = [s \in Sessions |-> EmptyMap]
    /\ entries = [s \in Sessions |-> EmptyLog]
    /\ max_fetch = [s \in Sessions |-> 0]
    /\ fetched = [s \in Sessions |-> 0]
    /\ take = [s \in Sessions |-> 0]
    /\ ch_resp = [s \in Sessions |-> -1]
    /\ search_response = [s \in Sessions |-> NoPage]
    /\ next_token = [s \in Sessions |-> FALSE]
    /\ cost_used = [s \in Sessions |-> 0]
    /\ breakdown = [s \in Sessions |-> NoBreakdown]
    /\ calls = [s \in Sessions |-> [search |-> 0, lookup |-> 0]]
    /\ results_tmp = [s \in Sessions |-> 0]
    /\ \E prev \in {[df |-> NoDf, m |-> "none"], [df |-> Df(1), m |-> "general"]} :
         /\ results_df = [s \in Sessions |-> prev.df]
         /\ search_mode = [s \in Sessions |-> prev.m]
    /\ outcome = [s \in Sessions |-> "none"]
    /\ nreq = [s \in Sessions |-> 0]

Init ==
    /\ supabase \in BOOLEAN
    /\ store_up = TRUE
    /\ api_key \in BOOLEAN
    /\ now = LastTick - 1
    /\ quota_store \in InitQuota
    /\ log_store \in InitLog
    /\ InitSessions
    /\ plan = StartPlan(<<>>)
    /\ InitCalc

StoreStep(s) ==
    \/ add_quota_usage_load(s)
    \/ add_quota_usage_save(s)
    \/ append_keyword_log_load(s)
    \/ append_keyword_log_save(s)

\* One session runs the script's request block, one run after another.
Requesters == {1}

Next ==
    \/ \E s \in Requesters :
         \/ StartGeneral(s)
         \/ StartTrend(s)
         \/ StartChannelVideos(s)
         \/ StartChannelList(s)
         \/ get_youtube_client(s)
         \/ resolve_channel(s)
         \/ search_list(s)
         \/ videos_list(s)
         \/ search_trending_videos(s)
         \/ channel_search(s)
         \/ channels_list(s)
         \/ render(s)
         \/ StoreStep(s)
    \/ Tick
    \/ StoreFlip

Spec == Init /\ [][Next]_vars

\* Concurrent sessions call the ledger and the log directly.
NextStore ==
    \/ \E s \in Sessions :
         \/ CallAddUsage(s)
         \/ CallAppend(s)
         \/ StoreStep(s)
    \/ Tick
    \/ StoreFlip

InitStore ==
    /\ supabase \in BOOLEAN
    /\ store_up = TRUE
    /\ api_key = TRUE
    /\ now = FirstTick
    /\ quota_store \in InitQuota
    /\ log_store \in InitLog
    /\ InitSessions
    /\ plan = StartPlan(<<>>)
    /\ InitCalc

SpecStore == InitStore /\ [][NextStore]_vars

\* One session, a working store: a sequence of credits.
InitLedger ==
    /\ supabase = TRUE
    /\ store_up = TRUE
    /\ api_key \in BOOLEAN
    /\ now = FirstTick
    /\ quota_store \in InitQuota
    /\ log_store = EmptyLog
    /\ InitSessions
    /\ \E credits \in SeqsUpTo(CreditCosts, MaxCredits) :
         plan = StartPlan(credits)
    /\ InitCalc

NextLedger ==
    \/ CreditNext
    \/ add_quota_usage_load(1)
    \/ add_quota_usage_save(1)
    \/ Tick

\* Concurrent sessions over a store that works: only the interleaving of
\* the loads and saves is left to vary.
InitShared ==
    /\ supabase = TRUE
    /\ store_up = TRUE
    /\ api_key = TRUE
    /\ now = FirstTick
    /\ quota_store \in InitQuota
    /\ log_store \in InitLog
    /\ InitSessions
    /\ plan = StartPlan(<<>>)
    /\ InitCalc

NextShared ==
    \/ \E s \in Sessions :
         \/ CallAddUsage(s)
         \/ CallAppend(s)
         \/ StoreStep(s)
    \/ Tick

SpecShared == InitShared /\ [][NextShared]_vars

SpecLedger == InitLedger /\ [][NextLedger]_vars

\* The sidebar reads the recent keywords from a log of any content.
InitRecent ==
    /\ supabase = TRUE
    /\ store_up = TRUE
    /\ api_key = TRUE
    /\ now = LastTick - 1
    /\ quota_store = EmptyMap
    /\ log_store \in SeqsUpTo(StoredEntries, MaxLog)
    /\ InitSessions
    /\ plan = StartPlan(<<>>)
    /\ InitCalc

NextRecent ==
    \/ Sidebar
    \/ Tick
    \/ StoreFlip

SpecRecent == InitRecent /\ [][NextRecent]_vars

\* One call of one utility.
InitUtil ==
    /\ supabase = FALSE
    /\ store_up = TRUE
    /\ api_key = TRUE
    /\ now = FirstTick
    /\ quota_store = EmptyMap
    /\ log_store = EmptyLog
    /\ InitSessions
    /\ plan = StartPlan(<<>>)
    /\ InitCalc

NextUtil ==
    \/ Call_calc_grade
    \/ Call_human_elapsed_days_hours
    \/ Call_parse_duration_iso8601
    \/ Call_format_duration_hms

SpecUtil == InitUtil /\ [][NextUtil]_vars

\* The records of one request, from the platform's items to the table.
InitRows ==
    /\ supabase = FALSE
    /\ store_up = TRUE
    /\ api_key = TRUE
    /\ now = FirstTick
    /\ quota_store = EmptyMap
    /\ log_store = EmptyLog
    /\ InitSessions
    /\ plan = StartPlan(<<>>)
    /\ recents = NoRecents
    /\ calc = NoCalc
    /\ job \in Jobs

NextRows ==
    \/ job_fetch
    \/ job_render
    \/ job_refilter

SpecRows == InitRows /\ [][NextRows]_vars

\* The keyword and the channel-name search of one session, with no store
\* configured.  Every upstream call returns (with an answer or an error),
\* so a run that can take a step takes one.
InitLoop ==
    /\ supabase = FALSE
    /\ store_up = TRUE
    /\ api_key = TRUE
    /\ now = FirstTick
    /\ quota_store = EmptyMap
    /\ log_store = EmptyLog
    /\ InitSessions
    /\ plan = StartPlan(<<>>)
    /\ InitCalc

NextLoop ==
    \E s \in Requesters :
       \/ StartGeneral(s)
       \/ StartChannelVideos(s)
       \/ get_youtube_client(s)
       \/ resolve_channel(s)
       \/ search_list(s)
       \/ videos_list(s)
       \/ render(s)
       \/ StoreStep(s)

SpecLoop == InitLoop /\ [][NextLoop]_vars /\ WF_vars(NextLoop)

\* One run of the request block over a store that is configured and
\* answers every download and upload.
InitRun ==
    /\ supabase = TRUE
    /\ store_up = TRUE
    /\ api_key \in BOOLEAN
    /\ now = LastTick - 1
    /\ quota_store \in InitQuota
    /\ log_store \in InitLog
    /\ InitSessions
    /\ plan = StartPlan(<<>>)
    /\ InitCalc

NextRun ==
    \/ \E s \in Requesters :
         \/ StartGeneral(s)
         \/ StartTrend(s)
         \/ StartChannelVideos(s)
         \/ StartChannelList(s)
         \/ get_youtube_client(s)
         \/ resolve_channel(s)
         \/ search_list(s)
         \/ videos_list(s)
         \/ search_trending_videos(s)
         \/ channel_search(s)
         \/ channels_list(s)
         \/ render(s)
         \/ StoreStep(s)
    \/ Tick

SpecRun == InitRun /\ [][NextRun]_vars


(* ------------------------------- claims -------------------------------- *)
\* Positions of a run whose search function has returned normally.
Returned == {"quota", "quota_save", "render"}
Ended(s) == pc[s] = "done" /\ outcome[s] \in {"success", "zero"}
Failed(s) == pc[s] = "done" /\ outcome[s] = "error"
IsPrefix(a, b) == Len(a) <= Len(b) /\ SubSeq(b, 1, Len(a)) = a

\* C1: when a request ends in an error after upstream calls of it have
\* succeeded, today's persisted ledger entry has grown by the cost of those
\* calls (store configured, same day as at the start).
C1_FailedRequestCredited ==
    \A s \in Sessions :
        (Failed(s) /\ cost_used[s] > 0 /\ supabase /\ store_up
           /\ quota_today_key = plan.day)
        => Persisted(quota_today_key) = StartTotal + cost_used[s]

C3_Case(s) ==
    /\ mode[s] = "general"
    /\ pc[s] \notin {"idle", "kwlog", "kwlog_save", "call"}
    /\ max_fetch[s] = PageMax
    /\ fetched[s] >= 1

\* C3 (as claimed): a keyword search with ceiling 50 whose first page has
\* 1..50 ids makes exactly one search call and one detail lookup, cost 101,
\* whatever the page's size and with or without a continuation token.
C3_OnePageWhateverToken ==
    \A s \in Sessions :
        C3_Case(s) =>
          /\ breakdown[s].search = SearchCost
          /\ breakdown[s].videos = LookupCost
          /\ cost_used[s] = SearchCost + LookupCost

\* C3 (amended): after the first page's lookup the cost is 101; the search
\* has returned with exactly one search call and one detail lookup when the
\* page carried 50 ids or no continuation token; a page of fewer than 50
\* ids with a token is followed by a further search call.
C3_OnePageAtCeilingOrNoToken ==
    \A s \in Sessions :
        (C3_Case(s) /\ breakdown[s].search = SearchCost) =>
          /\ breakdown[s].videos = LookupCost
          /\ cost_used[s] = SearchCost + LookupCost
          /\ fetched[s] = search_response[s].ids
          /\ next_token[s] = search_response[s].token
          /\ (fetched[s] = PageMax \/ ~next_token[s])
               => (pc[s] \in Returned \/ Ended(s))
          /\ (fetched[s] < PageMax /\ next_token[s])
               => (pc[s] = "search" \/ Failed(s))

C3_Witness ==
    \E s \in Sessions :
        /\ C3_Case(s)
        /\ Ended(s)
        /\ fetched[s] = PageMax
        /\ next_token[s]
        /\ cost_used[s] = SearchCost + LookupCost

\* The ledger after add_quota_usage(u) ran once from the scenario's start:
\* unchanged (the write failed), the start's ledger with u added on the day
\* of the save, or u as the only entry (the load failed).
CreditedOnce(u) ==
    \/ quota_store = plan.quota
    \/ \E k \in plan.day .. quota_today_key :
          quota_store \in {Put(plan.quota, k, Get(plan.quota, k, 0) + u),
                           Put(EmptyMap, k, u)}

\* A channel-name search whose resolution found no channel, after its
\* add_quota_usage call.
C4_Case(s) ==
    /\ mode[s] = "channel_videos"
    /\ ch_resp[s] = 0
    /\ pc[s] \in {"render", "done"}

\* C4 (as claimed): a channel-name search that resolves to no channel
\* returns no record at cost 100, with no further search call and no detail
\* lookup, and the 100 units are credited to today's ledger entry.
C4_ZeroChannelsCredited ==
    \A s \in Sessions :
        C4_Case(s) =>
          /\ results_tmp[s] = 0
          /\ cost_used[s] = SearchCost
          /\ breakdown[s] = [NoBreakdown EXCEPT !.search = SearchCost]
          /\ quota_today_key = plan.day
               => Persisted(quota_today_key) = StartTotal + SearchCost

\* C4 (amended): such a search returns no record at cost 100, with no
\* further search call and no detail lookup, and calls add_quota_usage(100):
\* today's entry grows by exactly 100 when the ledger's load and save
\* succeed; a failed save credits nothing, and a save after a failed load
\* writes 100 as the only entry.
C4_ZeroChannelsCost100 ==
    \A s \in Sessions :
        /\ (mode[s] = "channel_videos" /\ ch_resp[s] = 0) =>
             /\ pc[s] \in Returned \cup {"done"}
             /\ results_tmp[s] = 0
             /\ cost_used[s] = SearchCost
             /\ units[s] = SearchCost
             /\ breakdown[s] = [NoBreakdown EXCEPT !.search = SearchCost]
             /\ fetched[s] = 0
             /\ outcome[s] # "error"
        /\ C4_Case(s) => CreditedOnce(SearchCost)

C4_Witness ==
    \E s \in Sessions :
        /\ C4_Case(s)
        /\ Ended(s)
        /\ StartTotal > 0
        /\ quota_today_key = plan.day
        /\ Persisted(quota_today_key) = StartTotal + SearchCost

\* C5: a trending fetch makes one upstream call, the chart call: no search
\* call, no second page; it asks for at most 50 items and returns cost 1,
\* for every fetch ceiling in 1..5000.
C5_TrendingOneCall ==
    \A s \in Sessions :
        mode[s] = "trend" =>
          /\ pc[s] \notin {"resolve", "search", "videos", "chsearch", "channels"}
          /\ breakdown[s].search = 0
          /\ breakdown[s].channels = 0
          /\ breakdown[s].videos \in {0, LookupCost}
          /\ cost_used[s] = breakdown[s].videos
          /\ fetched[s] = 0 /\ ~next_token[s]
          /\ take[s] <= PageMax
          /\ pc[s] = "chart" =>
               \A m \in 1 .. FetchMax : ChartTake(m) \in 1 .. PageMax
          /\ (pc[s] \in Returned \/ Ended(s)) =>
               /\ cost_used[s] = LookupCost
               /\ take[s] = IF max_fetch[s] > PageMax THEN PageMax
                            ELSE max_fetch[s]
               /\ take[s] \in 1 .. PageMax
               /\ results_tmp[s] <= take[s]

C5_Witness ==
    \E s \in Sessions :
        /\ mode[s] = "trend"
        /\ Ended(s)
        /\ max_fetch[s] = FetchMax
        /\ take[s] = PageMax
        /\ cost_used[s] = LookupCost


\* C6: within one day and with a working store, after the first n credits
\* of a sequence of positive costs made one at a time, todayTotal() is the
\* total at the start plus their sum.  The scenario credits every sequence
\* over {1, 100, 102} up to MaxCredits long, so every order of [100, 1, 1]
\* and the single credit [102]: all end at the start's total plus 102.
C6_Additive ==
    (pc[1] = "idle" /\ quota_today_key = plan.day) =>
        get_today_quota_total
          = StartTotal + SumSeq(SubSeq(plan.credits, 1, nreq[1]))

C6_Witness ==
    /\ pc[1] = "idle"
    /\ quota_today_key = plan.day
    /\ plan.credits = <<LookupCost, SearchCost, LookupCost>>
    /\ nreq[1] = Len(plan.credits)
    /\ StartTotal > 0
    /\ get_today_quota_total = StartTotal + SearchCost + 2 * LookupCost

\* C7: add_quota_usage(units) with units <= 0 changes nothing: the step
\* that takes the call returns at once, with the persisted ledger (every
\* date's entry, and which dates have one) and todayTotal() as they were;
\* the function is never at its save with such units, so no write is
\* attempted.
C7_NoUsageNoOp ==
    [][\A s \in Sessions :
         /\ (pc[s] = "quota" /\ units[s] <= 0 /\ pc'[s] # pc[s]) =>
              /\ pc'[s] = AfterQuota(s)
              /\ quota_store' = quota_store
              /\ data'[s] = data[s]
              /\ get_today_quota_total' = get_today_quota_total
         /\ pc'[s] = "quota_save" => units'[s] > 0]_vars

C7_Witness ==
    \E s \in Sessions :
        /\ pc[s] = "idle"
        /\ nreq[s] > 0
        /\ units[s] = -5
        /\ quota_store = plan.quota
        /\ quota_today_key \notin DOMAIN quota_store

\* C8: under every interleaving of the loads and saves of concurrent
\* add_quota_usage calls, the current day's persisted units never decrease
\* from one store state to the next.
C8_TodayNeverDecreases ==
    [][quota_today_key' = quota_today_key
         => Persisted(quota_today_key)' >= Persisted(quota_today_key)]_vars

\* C9: an add_quota_usage call, also one whose load fails while its save
\* succeeds, leaves the persisted entry of every date other than the current
\* day present and unchanged.
C9_OtherDaysUntouched ==
    [][\A d \in DOMAIN quota_store :
         d # quota_today_key =>
            (d \in DOMAIN quota_store' /\ quota_store'[d] = quota_store[d])]_vars

\* C10: the persisted keyword log is append-only: its content before a
\* step is a prefix of its content after it, also when a load fails while
\* the save succeeds and when sessions interleave.
C10_LogAppendOnly ==
    [][IsPrefix(log_store, log_store')]_vars

\* The span of a window of w days, in ticks.
RecentWindows == {1, 2}

\* C11: recent(windowDays, limit) returns exactly the stored entries with a
\* parseable timestamp not older than now - windowDays, newest first, cut to
\* the first `limit`; malformed entries are skipped and no entry older than
\* the window is returned.
C11_RecentWithinWindow ==
    [][recents' # recents =>
         \A w \in RecentWindows :
            \A i \in 1 .. Len(recents'.out) :
               recents'.out[i].dt >= now - w * TicksPerDay]_vars

\* The threshold table of the claim, highest bound first.
GradeTable == <<[lo |-> 5000, sym |-> "A"], [lo |-> 2000, sym |-> "B"],
                [lo |-> 1000, sym |-> "C"], [lo |-> 500, sym |-> "D"],
                [lo |-> 300, sym |-> "E"], [lo |-> 100, sym |-> "F"],
                [lo |-> 50, sym |-> "G"]>>

\* C14: calc_grade is total and first-match-wins: for every integer value,
\* negative ones and 0 included, it returns one symbol of A..H: the symbol
\* of the highest lower bound of the table that the value reaches, and H
\* when it reaches none.
C14_GradeTotalFirstMatch ==
    calc.fn = "calc_grade" =>
       LET v == calc.in
           reached == {i \in 1 .. Len(GradeTable) : v >= GradeTable[i].lo}
       IN /\ calc.out \in {"A", "B", "C", "D", "E", "F", "G", "H"}
          /\ reached = {} => calc.out = "H"
          /\ reached # {} =>
               \E i \in reached :
                  /\ \A j \in reached : GradeTable[i].lo >= GradeTable[j].lo
                  /\ calc.out = GradeTable[i].sym

C14_Witness ==
    /\ calc.fn = "calc_grade"
    /\ calc.in < 0
    /\ calc.out = "H"

\* C15: for every record with viewCount >= 0 and every pair of fetch and
\* publication instants, a publication later than the fetch included, the
\* elapsed days and hours are >= 0, the divisor max(1, days*24 + hours) is
\* >= 1, clicksPerHour is >= 0, and it is viewCount when days = hours = 0.
C15_MetricDefined ==
    calc.fn = "human_elapsed_days_hours" =>
       /\ calc.in.views >= 0
       /\ calc.out.days >= 0
       /\ calc.out.hours >= 0
       /\ calc.out.total_hours >= 1
       /\ calc.out.total_hours
            = (IF calc.out.days * 24 + calc.out.hours >= 1
               THEN calc.out.days * 24 + calc.out.hours ELSE 1)
       /\ calc.out.cph >= 0
       /\ (calc.out.days = 0 /\ calc.out.hours = 0)
            => calc.out.cph = calc.in.views

C15_Witness ==
    /\ calc.fn = "human_elapsed_days_hours"
    /\ calc.in.earlier > calc.in.later
    /\ calc.in.views = 5000
    /\ calc.out.days = 0 /\ calc.out.hours = 0
    /\ calc.out.cph = 5000

\* The places of the colons of a formatted duration.
Colons(text) == {i \in 1 .. Len(text) : text[i] = ":"}

\* The number a formatted duration stands for when its fields are hours
\* (if there are two colons), minutes and seconds, and the last two fields
\* have two digits below 60; -1 otherwise.
Seconds(text) ==
    LET cs == Colons(text)
        last == CHOOSE i \in cs : \A j \in cs : j <= i
        first == CHOOSE i \in cs : \A j \in cs : i <= j
        ss == SubSeq(text, last + 1, Len(text))
        mm == SubSeq(text, first + 1, last - 1)
        head == SubSeq(text, 1, first - 1)
    IN IF Len(ss) # 2 \/ int(ss) >= 60 \/ head = <<>> THEN 0 - 1
       ELSE IF Cardinality(cs) = 1 THEN 60 * int(head) + int(ss)
       ELSE IF Len(mm) # 2 \/ int(mm) >= 60 THEN 0 - 1
       ELSE 3600 * int(head) + 60 * int(mm) + int(ss)

\* C16: PT{h}H{m}M{s}S, with any of the three components left out, parses
\* to 3600*h + 60*m + s; a text that does not start with PT parses to 0;
\* n seconds are formatted as H:MM:SS when n >= 3600 and as M:SS otherwise
\* ("PT1H2M3S" -> 3723 -> "1:02:03"; 45 -> "0:45").
C16_DurationParseFormat ==
    /\ calc.fn = "parse_duration_iso8601" =>
         /\ \A h \in HourChoices, m \in MinuteChoices, s \in SecondChoices,
               keep \in SUBSET {"H", "M", "S"} :
               calc.in = Render(h, m, s, keep) =>
                  calc.out = 3600 * (IF "H" \in keep THEN h ELSE 0)
                               + 60 * (IF "M" \in keep THEN m ELSE 0)
                               + (IF "S" \in keep THEN s ELSE 0)
         /\ (Len(calc.in) < 2 \/ SubSeq(calc.in, 1, 2) # <<"P", "T">>)
               => calc.out = 0
         /\ calc.in = <<"P", "T", "1", "H", "2", "M", "3", "S">>
               => calc.out = 3723
    /\ calc.fn = "format_duration_hms" =>
         /\ Cardinality(Colons(calc.out)) = IF calc.in >= 3600 THEN 2 ELSE 1
         /\ Seconds(calc.out) = calc.in
         /\ calc.in = 3723 => calc.out = <<"1", ":", "0", "2", ":", "0", "3">>
         /\ calc.in = 45 => calc.out = <<"0", ":", "4", "5">>

C16_Witness ==
    /\ calc.fn = "format_duration_hms"
    /\ calc.in = parse_duration_iso8601(<<"P", "T", "1", "H", "2", "M", "3", "S">>)
    /\ calc.out = <<"1", ":", "0", "2", ":", "0", "3">>

\* C12: for every request kind and every filter setting, each record of
\* the result after stage 2 has viewCount >= minViews, publishedAt >=
\* now - uploadWindow when a window is set, and satisfies the request's
\* duration-bucket predicate.
C12_ResultSatisfiesFilters ==
    (job.pc = "done" /\ job.present /\ job.applied = 1) =>
       \A i \in 1 .. Len(job.df) :
          /\ job.df[i].views >= parse_min_views(job.min_views_label)
          /\ job.upload_period # NoLimit
               => job.df[i].pub >= job.at - job.upload_period * DaySecs
          /\ duration_filter_ok(Seconds(job.df[i].length), job.duration_label)

\* C13: stage-2 filtering is idempotent: with the evaluation instant held
\* fixed, applying the filter (upload window, minimum views) to a table it
\* has already filtered returns that same table.
C13_FilterIdempotent ==
    [][(job.pc = "done" /\ job.present /\ job'.applied = job.applied + 1
          /\ job'.at = job.at)
       => job'.df = job.df]_vars

C13_Witness ==
    /\ job.pc = "done"
    /\ job.applied >= 2
    /\ job.at <= job.search_dt + 1
    /\ job.upload_period # NoLimit
    /\ Len(job.df) >= 1
    /\ Len(job.df) < Len(job.raw_results)

\* The ids requested in the channel lookup and the ids of the rows made of
\* its answer: records are counted, the k-th id is k.
AskedIds(s) == 1 .. search_response[s].ids
RowIds(s) == 1 .. results_tmp[s]

StorePcs == {"kwlog", "kwlog_save", "quota", "quota_save"}
UpstreamPcs == {"call", "resolve", "search", "videos", "chart", "chsearch",
                "channels"}
StoreDown == ~supabase \/ ~store_up

\* C18: a store failure never turns a request into a failure: with the
\* store unconfigured or failing, a load yields the empty default
\* (todayTotal() = 0, empty log), a save is swallowed, and the run goes on
\* to its next step with its records and cost; only a missing credential
\* or a failed upstream call ends a request in an error.
C18_StoreFailureDegrades ==
    [][\A s \in Sessions :
         /\ StoreDown => get_today_quota_total = 0
         /\ (pc[s] \in StorePcs /\ pc'[s] # pc[s]) =>
              /\ outcome'[s] = outcome[s]
              /\ pc'[s] \in StorePcs \cup {"call", "render", "idle"}
              /\ cost_used'[s] = cost_used[s]
              /\ results_tmp'[s] = results_tmp[s]
         /\ (StoreDown /\ pc[s] = "quota" /\ pc'[s] = "quota_save")
              => data'[s] = EmptyMap
         /\ (StoreDown /\ pc[s] = "kwlog" /\ pc'[s] = "kwlog_save")
              => entries'[s] = EmptyLog
         /\ (StoreDown /\ pc[s] \in {"quota_save", "kwlog_save"}
               /\ pc'[s] # pc[s])
              => (quota_store' = quota_store /\ log_store' = log_store)
         /\ (outcome'[s] = "error" /\ outcome[s] # "error")
              => pc[s] \in UpstreamPcs]_vars

C18_Witness ==
    \E s \in Sessions :
        /\ Ended(s)
        /\ outcome[s] = "success"
        /\ supabase /\ ~store_up
        /\ cost_used[s] > SearchCost
        /\ results_df[s].rows > 0
        /\ plan.quota # EmptyMap
        /\ quota_store = plan.quota
        /\ log_store = plan.log

\* C19: when a search call or a detail lookup of the paginated fetcher
\* fails, the run ends there: no further upstream call, one error message,
\* and the session's table cleared, so that neither the records of the
\* pages completed before the failure nor the previous request's table are
\* shown.
C19_FetcherFailureClears ==
    [][\A s \in Sessions :
         /\ (pc[s] \in {"search", "videos"} /\ outcome'[s] = "error") =>
              /\ pc'[s] = "done"
              /\ results_df'[s] = NoDf
              /\ cost_used'[s] = cost_used[s]
              /\ breakdown'[s] = breakdown[s]
         /\ Failed(s) =>
              /\ pc'[s] = "done" /\ outcome'[s] = "error"
              /\ results_df'[s] = NoDf
              /\ cost_used'[s] = cost_used[s]
              /\ breakdown'[s] = breakdown[s]]_vars

C19_Witness ==
    \E s \in Sessions :
        /\ Failed(s)
        /\ mode[s] = "channel_videos"
        /\ search_mode[s] = "general"
        /\ results_tmp[s] > 0
        /\ breakdown[s].videos > 0
        /\ results_df[s] = NoDf

\* The positions of a run inside the paging loop, and the search calls the
\* loop has made (the channel-name search made one before the loop).
LoopPcs == {"search", "videos"}
LoopCalls(s) ==
    (breakdown[s].search \div SearchCost)
      - (IF mode[s] = "channel_videos" /\ ch_resp[s] >= 0 THEN 1 ELSE 0)

\* C20: with every upstream call returning, the paging loop of the keyword
\* and channel-scoped fetchers terminates; it makes a further search call
\* only while ids fetched < ceiling and the previous page had an id and a
\* continuation token, so it makes at most `ceiling` search calls.
C20_LoopTerminates ==
    /\ [](\A s \in Requesters :
            mode[s] \in {"general", "channel_videos"} =>
              /\ LoopCalls(s) <= max_fetch[s]
              /\ (pc[s] = "search" /\ LoopCalls(s) >= 1) =>
                   /\ fetched[s] < max_fetch[s]
                   /\ search_response[s].ids >= 1
                   /\ search_response[s].token)
    /\ \A s \in Requesters :
          (pc[s] \in LoopPcs) ~> (pc[s] \notin LoopPcs)

C20_Witness ==
    \E s \in Requesters :
        /\ mode[s] = "general"
        /\ Ended(s)
        /\ max_fetch[s] = PageMax + 1
        /\ LoopCalls(s) = 3
        /\ fetched[s] = max_fetch[s]

\* C21: in the paging loop each search call asks for exactly
\* min(50, ceiling - ids fetched so far) items, a number in 1..50; with a
\* platform that returns no more ids than asked for, the ids fetched never
\* exceed the ceiling, every detail lookup carries 1..50 ids, and the
\* accumulated records never exceed the ids fetched.
C21_LoopBounds ==
    \A s \in Requesters :
        (mode[s] \in {"general", "channel_videos"} /\ pc[s] # "call") =>
          /\ fetched[s] <= max_fetch[s]
          /\ results_tmp[s] <= fetched[s]
          /\ pc[s] = "videos" =>
               /\ take[s] = (IF max_fetch[s] - fetched[s] < PageMax
                             THEN max_fetch[s] - fetched[s] ELSE PageMax)
               /\ take[s] \in 1 .. PageMax
               /\ search_response[s].ids \in 1 .. take[s]
               /\ fetched[s] + search_response[s].ids <= max_fetch[s]

C21_Witness ==
    \E s \in Requesters :
        /\ mode[s] = "channel_videos"
        /\ pc[s] = "videos"
        /\ max_fetch[s] = PageMax + 1
        /\ fetched[s] = PageMax - 1
        /\ take[s] = 2
        /\ search_response[s].ids = 2
        /\ results_tmp[s] = PageMax - 1

\* The run's search calls made inside the paging loop: all of them but the
\* one that resolved the channel name.
PagingCalls(s) ==
    IF mode[s] = "channel_videos" THEN calls[s].search - 1
    ELSE calls[s].search

\* C22: when a request completes without error, the cost it returned is
\* 100 per search call made plus 1 per detail lookup made, the paging loop
\* made no more lookups than searches, and (store working) the ledger is
\* the one of the start with the entry of the day of the credit grown by
\* exactly that cost, also when the request found nothing.
C22_CostMatchesCalls ==
    \A s \in Requesters :
        Ended(s) =>
          /\ cost_used[s] = 100 * calls[s].search + calls[s].lookup
          /\ cost_used[s] > 0
          /\ units[s] = cost_used[s]
          /\ mode[s] \in {"general", "channel_videos"} =>
               /\ PagingCalls(s) >= 0
               /\ calls[s].lookup <= PagingCalls(s)
               /\ calls[s].lookup >= PagingCalls(s) - 1
          /\ \E day \in plan.day .. quota_today_key :
               quota_store = Put(plan.quota, day,
                                 Get(plan.quota, day, 0) + cost_used[s])

C22_Witness ==
    \E s \in Requesters :
        /\ Ended(s)
        /\ outcome[s] = "zero"
        /\ mode[s] = "general"
        /\ calls[s] = [search |-> 2, lookup |-> 1]
        /\ cost_used[s] = 201
        /\ StartTotal = 500
        /\ quota_today_key = plan.day
        /\ Persisted(plan.day) = 701

=============================================================================
